---------------------------- MODULE Spec2Model ----------------------------
(***************************************************************************)
(* Password analyzer ("password checker/app.js"): the input handler        *)
(* onInput, the pattern detectors, the score, and the k-anonymity breach   *)
(* lookup checkPwned, as a state machine over the page's elements and the  *)
(* pending asynchronous continuations of onInput.                          *)
(*                                                                         *)
(* A JavaScript string is a sequence of one-character strings.             *)
(***************************************************************************)
EXTENDS Integers, Sequences, FiniteSets, TLC

(* ------------------------------ bounds -------------------------------- *)
\* input events handled in one run
MaxEvents == 2
\* records in one range response
MaxLines == 2

(* ---------------------------- characters ------------------------------ *)
\* the printable ASCII characters, Chr[i] having char code i + 31
\* (code 96, the grave accent, is written "BACKTICK")
Chr ==
  <<" ", "!", "\"", "#", "$", "%", "&", "'", "(", ")", "*", "+", ",", "-", ".", "/",
    "0", "1", "2", "3", "4", "5", "6", "7", "8", "9", ":", ";", "<", "=", ">", "?",
    "@", "A", "B", "C", "D", "E", "F", "G", "H", "I", "J", "K", "L", "M", "N", "O",
    "P", "Q", "R", "S", "T", "U", "V", "W", "X", "Y", "Z", "[", "\\", "]", "^", "_",
    "BACKTICK", "a", "b", "c", "d", "e", "f", "g", "h", "i", "j", "k", "l", "m", "n", "o",
    "p", "q", "r", "s", "t", "u", "v", "w", "x", "y", "z", "{", "|", "}", "~">>

CodeOf == [c \in {Chr[i] : i \in DOMAIN Chr} |-> 31 + CHOOSE i \in DOMAIN Chr : Chr[i] = c]

Printable == DOMAIN CodeOf

IsPrintable(c) == c \in Printable

\* String.prototype.charCodeAt for one character
charCodeAt(c) ==
  IF IsPrintable(c) THEN CodeOf[c]
  ELSE CASE c = "\t" -> 9 [] c = "\n" -> 10 [] c = "\r" -> 13

fromCharCode(n) == Chr[n - 31]

\* /[a-z]/, /[A-Z]/, /[0-9]/ on one character
IsLower(c) == IsPrintable(c) /\ charCodeAt(c) \in 97..122
IsUpper(c) == IsPrintable(c) /\ charCodeAt(c) \in 65..90
IsDigit(c) == IsPrintable(c) /\ charCodeAt(c) \in 48..57
IsLetter(c) == IsLower(c) \/ IsUpper(c)

\* String.prototype.toLowerCase / toUpperCase (ASCII)
toLowerCase(s) ==
  [i \in DOMAIN s |-> IF IsUpper(s[i]) THEN fromCharCode(charCodeAt(s[i]) + 32) ELSE s[i]]
toUpperCase(s) ==
  [i \in DOMAIN s |-> IF IsLower(s[i]) THEN fromCharCode(charCodeAt(s[i]) - 32) ELSE s[i]]

\* String.prototype.includes / slice(i, i+n)
Window(s, i, n) == SubSeq(s, i, i + n - 1)
includes(s, p) == \E i \in 1..(Len(s) - Len(p) + 1) : Window(s, i, Len(p)) = p

(* --------------------- common passwords (l.28-45) --------------------- *)
commonPasswords ==
  { <<"1","2","3","4","5","6">>, <<"1","2","3","4","5","6","7","8","9">>, <<"p","a","s","s","w","o","r","d">>,
    <<"1","2","3","4","5","6","7","8">>, <<"q","w","e","r","t","y">>, <<"1","2","3","4","5">>,
    <<"1","2","3","4","5","6","7","8","9","0">>, <<"1","2","3","4","5","6","7">>,
    <<"q","w","e","r","t","y","1","2","3">>, <<"1","q","2","w","3","e">>, <<"1","1","1","1","1","1">>,
    <<"1","2","3","1","2","3">>, <<"a","b","c","1","2","3">>, <<"p","a","s","s","w","o","r","d","1">>,
    <<"i","l","o","v","e","y","o","u">>, <<"a","d","m","i","n">>, <<"w","e","l","c","o","m","e">>,
    <<"m","o","n","k","e","y">>, <<"d","r","a","g","o","n">>, <<"p","a","s","s","w","0","r","d">>,
    <<"l","e","t","m","e","i","n">>, <<"b","a","s","e","b","a","l","l">>, <<"f","o","o","t","b","a","l","l">>,
    <<"s","h","a","d","o","w">>, <<"m","a","s","t","e","r">>, <<"k","i","l","l","e","r">>,
    <<"s","u","p","e","r","m","a","n">>, <<"l","o","g","i","n">>, <<"f","l","o","w","e","r">>,
    <<"h","o","t","t","i","e">>, <<"l","o","v","e","m","e">>, <<"z","a","q","1","z","a","q","1">>,
    <<"p","a","s","s","w","o","r","d","1","2","3">>, <<"z","a","q","1","2","w","s","x">>,
    <<"q","a","z","w","s","x">>, <<"t","r","u","s","t","n","o","1">>, <<"s","t","a","r","w","a","r","s">>,
    <<"6","5","4","3","2","1">>, <<"b","a","t","m","a","n">>, <<"z","a","q","1","@","W","S","X">>,
    <<"m","u","s","t","a","n","g">>, <<"m","i","c","h","a","e","l">>, <<"p","o","k","e","m","o","n">>,
    <<"c","o","m","p","u","t","e","r">>, <<"i","n","t","e","r","n","e","t">>, <<"h","e","l","l","o">>,
    <<"f","r","e","e","d","o","m">>, <<"w","h","a","t","e","v","e","r">>, <<"q","w","e","r","t","y","u","i","o","p">>,
    <<"1","q","a","z","2","w","s","x">>, <<"d","r","a","g","o","n","1","2","3">>,
    <<"p","a","s","s","w","o","r","d","!">>, <<"s","u","m","m","e","r">>, <<"d","o","n","a","l","d">>,
    <<"f","o","o","t","b","a","l","l","1">>, <<"p","r","i","n","c","e","s","s">>,
    <<"a","z","e","r","t","y">>, <<"p","a","s","s">>, <<"p","a","s","s","1","2","3","4">>,
    <<"q","w","e","1","2","3">>, <<"1","2","3","4">>, <<"1","q","2","w","3","e","4","r">>,
    <<"5","5","5","5","5","5">>, <<"l","o","v","e","y","o","u">>, <<"1","2","3","q","w","e">>,
    <<"p","a","s","s","w","o","r","d","s">>, <<"w","e","l","c","o","m","e","1">>,
    <<"1","1","1","1","1","1","1","1">>, <<"9","8","7","6","5","4","3","2","1">>,
    <<"1","2","1","2","1","2">>, <<"0","0","0","0","0","0">>, <<"q","w","e","r","t","y","1">>,
    <<"1","q","2","w","3","e","4">>, <<"0","0","0","0","0","0","0","0">>, <<"a","s","h","l","e","y">>,
    <<"f","l","u","f","f","y">>, <<"m","y","n","o","o","b">>, <<"s","u","p","e","r","m","a","n","1">>,
    <<"c","h","a","r","l","i","e">>, <<"a","n","d","r","e","w">>, <<"l","e","t","m","e","i","n","1">>,
    <<"m","o","n","k","e","y","1","2","3">>, <<"h","e","l","l","o","1","2","3">>,
    <<"1","2","3","3","2","1">>, <<"!","@","#","$","%","^">>, <<"p","a","s","s","w","o","r","d","1","!">>,
    <<"z","a","q","!","@","W","S","X">>, <<"1","q","a","z","2","w","s","x","3","e","d","c">>,
    <<"f","o","o","t","b","a","l","l","1","2","3">>, <<"q","w","e","r","t","y","u","i">>,
    <<"q","w","e","r","1","2","3","4">>, <<"w","e","l","c","o","m","e","1","2","3">>,
    <<"l","o","v","e","m","e","1","2","3">>, <<"1","q","2","w","3","e","4","r","5","t">>,
    <<"!","@","#","$">>, <<"m","a","r","i","n","a">>, <<"h","a","n","n","a","h">>,
    <<"m","i","c","h","a","e","l","1">>, <<"n","i","c","o","l","e">>, <<"j","e","s","s","i","c","a">>,
    <<"d","a","n","i","e","l">>, <<"j","o","r","d","a","n">>, <<"h","u","n","t","e","r">>,
    <<"b","u","s","t","e","r">>, <<"s","o","c","c","e","r">>, <<"k","i","l","l","e","r","1","2","3">>,
    <<"p","a","s","s","w","0","r","d","1">>, <<"s","t","e","v","e","n">>, <<"t","i","g","g","e","r">>,
    <<"b","a","i","l","e","y">>, <<"p","e","p","p","e","r">>, <<"g","r","e","g","o","r","y">>,
    <<"s","u","m","m","e","r","1","2","3">>, <<"1","q","a","z","x","s","w","2">>,
    <<"f","l","o","w","e","r","1","2","3">>, <<"1","4","7","2","5","8","3","6","9">>,
    <<"m","y","p","a","s","s">>, <<"m","y","p","a","s","s","w","o","r","d">>, <<"q","1","w","2","e","3","r","4">>,
    <<"t","r","u","s","t","n","o","1","!">>, <<"c","o","o","k","i","e">>, <<"c","o","m","p","u","t","e","r","1">>,
    <<"q","w","e","a","s","d">>, <<"a","s","d","f","g","h">>, <<"a","s","d","f","1","2","3","4">>,
    <<"z","x","c","v","b","n","m">>, <<"z","x","c","v","b","n">>, <<"z","a","q","1","2","s","w","x">>,
    <<"1","5","9","7","5","3">>, <<"1","5","9","3","5","7">>, <<"a","a","1","2","3","4","5","6">>,
    <<"q","w","e","q","w","e">>, <<"m","o","n","k","e","y","1">>, <<"s","h","a","d","o","w","1">>,
    <<"i","l","o","v","e","y","o","u","1">>, <<"1","2","3","a","b","c">>, <<"p","a","s","s","w","o","r","d","1","2","3","4">>,
    <<"a","b","c","1","2","3","4","5","6">>, <<"q","a","z","w","s","x","e","d","c">>,
    <<"1","q","a","z","2","w","s","x","3">>, <<"l","o","v","e">> }


(* ------------------------- inputs of the model ------------------------ *)
\* the passwords typed into the field: the empty one; a common password
\* with a keyboard pattern; one of all four classes with three flags, none
\* of them danger; a short common one; and an unflagged one whose digest
\* has the same 5 first characters as that of the short common one
Passwords ==
  { <<>>,
    <<"q","w","e","r","t","y","1","2","3">>,
    <<"A","b","c","d","@","1","9","9","0">>,
    <<"p","a","s","s">>,
    <<"d","s","t","r">> }

(* ----------------------------- sha1hex -------------------------------- *)
\* l.120-124: SHA-1 of the UTF-8 bytes as 40 upper-case hex characters; the
\* digests of the passwords of the model
sha1hex(text) ==
  CASE text = <<>> ->
         <<"D","A","3","9","A","3","E","E","5","E","6","B","4","B","0","D","3","2","5","5",
           "B","F","E","F","9","5","6","0","1","8","9","0","A","F","D","8","0","7","0","9">>
    [] text = <<"q","w","e","r","t","y","1","2","3">> ->
         <<"5","C","E","C","1","7","5","B","1","6","5","E","3","D","5","E","6","2","C","9",
           "E","1","3","C","E","8","4","8","E","F","6","F","E","A","C","8","1","B","F","F">>
    [] text = <<"A","b","c","d","@","1","9","9","0">> ->
         <<"6","2","C","E","4","B","3","6","7","8","F","5","D","A","F","2","9","4","3","8",
           "7","7","D","4","B","9","B","5","E","A","0","B","D","4","F","8","D","0","5","6">>
    [] text = <<"p","a","s","s">> ->
         <<"9","D","4","E","1","E","2","3","B","D","5","B","7","2","7","0","4","6","A","9",
           "E","3","B","4","B","7","D","B","5","7","B","D","8","D","6","E","E","6","8","4">>
    [] text = <<"d","s","t","r">> ->
         <<"9","D","4","E","1","1","C","B","9","7","6","4","1","D","6","B","6","0","F","4",
           "9","6","3","C","A","7","9","3","F","7","6","B","D","2","B","2","2","0","B","A">>

(* ------------------------ charset and entropy ------------------------- *)
Max(a, b) == IF a >= b THEN a ELSE b

HasLower(s) == \E i \in DOMAIN s : IsLower(s[i])
HasUpper(s) == \E i \in DOMAIN s : IsUpper(s[i])
HasDigit(s) == \E i \in DOMAIN s : IsDigit(s[i])
\* /[^A-Za-z0-9]/
HasSymbol(s) == \E i \in DOMAIN s : ~IsLetter(s[i]) /\ ~IsDigit(s[i])

charsetSize(s) ==
    (IF HasLower(s) THEN 26 ELSE 0) + (IF HasUpper(s) THEN 26 ELSE 0)
  + (IF HasDigit(s) THEN 10 ELSE 0) + (IF HasSymbol(s) THEN 32 ELSE 0)

\* Math.log2 of the charset sizes, in millionths of a bit (rounded down)
Log2Micro(n) ==
  CASE n = 10 -> 3321928 [] n = 26 -> 4700439 [] n = 32 -> 5000000
    [] n = 36 -> 5169925 [] n = 42 -> 5392317 [] n = 52 -> 5700439
    [] n = 58 -> 5857980 [] n = 62 -> 5954196 [] n = 68 -> 6087462
    [] n = 84 -> 6392317 [] n = 94 -> 6554588

\* l.58-59: charset ? Math.log2(charset) * value.length : 0, in millionths
entropyOf(value) ==
  LET charset == charsetSize(value)
  IN  IF charset # 0 THEN Log2Micro(charset) * Len(value) ELSE 0

\* l.60: Math.round(entropy * 10) / 10, as a number of tenths
roundTenths(micro) == (micro + 50000) \div 100000

(* ---------------------------- computeScore ---------------------------- *)
computeScore(p) ==
    (IF Len(p) >= 8 THEN 1 ELSE 0) + (IF HasLower(p) THEN 1 ELSE 0)
  + (IF HasUpper(p) THEN 1 ELSE 0) + (IF HasDigit(p) THEN 1 ELSE 0)
  + (IF HasSymbol(p) THEN 1 ELSE 0)

(* -------------------------- pattern detection ------------------------- *)
commonPasswordCheck(p) == toLowerCase(p) \in commonPasswords

isConsecutive(chunk) ==
  \A i \in 2..Len(chunk) : charCodeAt(chunk[i]) = charCodeAt(chunk[i - 1]) + 1

isSequential(s) ==
  LET lower == toLowerCase(s)
  IN  \E i \in 1..(Len(lower) - 3) : isConsecutive(Window(lower, i, 4))

\* /(.)\1{3,}/, then two equal adjacent substrings of any size >= 2
isRepeatedChars(s) ==
  \/ \E i \in 1..(Len(s) - 3) :
       /\ s[i] \notin {"\n", "\r"}
       /\ \A k \in 1..3 : s[i + k] = s[i]
  \/ \E size \in 2..(Len(s) \div 2) :
       \E i \in 1..(Len(s) - size * 2 + 1) :
         Window(s, i, size) = Window(s, i + size, size)

patterns ==
  { <<"q","w","e","r","t","y">>, <<"a","s","d","f","g","h">>, <<"z","x","c","v","b","n">>,
    <<"1","q","2","w">>, <<"q","a","z">>, <<"w","a","s","d">>, <<"q","w","e","r","t">>,
    <<"p","a","s","s","w">>, <<"!","@","#">>, <<"$","%","^">>,
    <<"1","2","3","q","w","e">> }

isKeyboardPattern(s) ==
  LET lower == toLowerCase(s)
  IN  \E p \in patterns : includes(lower, p)

\* /(19\d{2}|20[0-2]\d)/
containsYear(s) ==
  \E i \in 1..(Len(s) - 3) :
    \/ s[i] = "1" /\ s[i + 1] = "9" /\ IsDigit(s[i + 2]) /\ IsDigit(s[i + 3])
    \/ s[i] = "2" /\ s[i + 1] = "0" /\ s[i + 2] \in {"0", "1", "2"} /\ IsDigit(s[i + 3])

\* includes('@'), or /[a-z]+\d{2,}/i
looksLikeEmailOrUsername(s) ==
  \/ \E i \in DOMAIN s : s[i] = "@"
  \/ \E i \in 1..(Len(s) - 2) : IsLetter(s[i]) /\ IsDigit(s[i + 1]) /\ IsDigit(s[i + 2])

(* ------------------------- flags and the score ------------------------ *)
\* a flag {t, s, detail}; detail is the sequence of the parts of its text
Flag(t, s, detail) == [t |-> t, s |-> s, detail |-> detail]

OnlyIf(cond, flag) == IF cond THEN <<flag>> ELSE <<>>

\* l.66-72: the flags of the local checks, in the order they are pushed
localFlags(value) ==
     OnlyIf(commonPasswordCheck(value),
            Flag("Common password", "danger", <<"Matches a commonly used password list">>))
  \o OnlyIf(isSequential(value),
            Flag("Sequential characters", "warn",
                 <<"Contains sequential characters like 1234 or abcd">>))
  \o OnlyIf(isRepeatedChars(value),
            Flag("Repeated characters", "warn",
                 <<"Contains repeated characters or repeated substrings">>))
  \o OnlyIf(isKeyboardPattern(value),
            Flag("Keyboard pattern", "warn",
                 <<"Contains keyboard sequences like qwerty or asdf">>))
  \o OnlyIf(containsYear(value),
            Flag("Year detected", "info",
                 <<"Contains a year (e.g., 1990, 2023). Avoid using birth years">>))
  \o OnlyIf(looksLikeEmailOrUsername(value),
            Flag("Email/username pattern", "info",
                 <<"Looks like an email/username pattern. Avoid reuse across accounts">>))

HasDanger(flags) == \E i \in DOMAIN flags : flags[i].s = "danger"
HasCommon(flags) == \E i \in DOMAIN flags : flags[i].t = "Common password"

\* l.75-77 with one point taken for each flag
adjustPerFlag(baseScore, flags) == Max(0, baseScore - Len(flags))

\* l.75-77 without the clamp at 0
adjustNoClamp(baseScore, flags) ==
  IF HasDanger(flags) THEN baseScore - 2
  ELSE IF Len(flags) # 0 THEN baseScore - 1
  ELSE baseScore

\* l.75-77: the penalty of the local flags
adjustScore(baseScore, flags) ==
  IF HasDanger(flags) THEN Max(0, baseScore - 2)
  ELSE IF Len(flags) # 0 THEN Max(0, baseScore - 1)
  ELSE baseScore

\* l.91: the flag of a breach hit
breachFlag(pwnCount) ==
  Flag("Found in breaches", "danger",
       <<"This password appears in public breaches (", pwnCount, " times)">>)

(* ---------------------------- UI rendering ---------------------------- *)
labels == <<"Very Weak", "Weak", "Medium", "Strong", "Very Strong">>

\* l.220 with labels[score] for labels[Math.max(0, score-1)]
labelOffByOne(score) ==
  IF score + 1 \in DOMAIN labels THEN labels[score + 1] ELSE labels[1]

\* l.220: labels[Math.max(0, score-1)] || labels[0]
strengthLabel(score) ==
  LET k == Max(0, score - 1)
  IN  IF k + 1 \in DOMAIN labels THEN labels[k + 1] ELSE labels[1]

\* l.223-230
suggestionsFor(password) ==
  LET tips ==
           (IF Len(password) < 12
              THEN <<"Increase length to at least 12+ characters.">> ELSE <<>>)
        \o (IF ~HasUpper(password) THEN <<"Add an uppercase letter (A-Z).">> ELSE <<>>)
        \o (IF ~HasLower(password) THEN <<"Add a lowercase letter (a-z).">> ELSE <<>>)
        \o (IF ~HasDigit(password) THEN <<"Include numbers (0-9).">> ELSE <<>>)
        \o (IF ~HasSymbol(password)
              THEN <<"Add special characters like @, #, %, !.">> ELSE <<>>)
  IN  IF Len(tips) # 0 THEN tips ELSE <<"Your password looks strong!">>

\* l.208-231: the strength bar, its text and the suggestions, written into
\* the page d
updateStrengthUI(d, score, password) ==
  [d EXCEPT !.fillWidth = score * 20,
            !.fillBackground = IF score <= 1 THEN "--bad"
                               ELSE IF score = 2 THEN "--warn" ELSE "--good",
            !.strengthText = strengthLabel(score),
            !.suggestionsEl = suggestionsFor(password)]

\* l.234-242: one block per flag, of class "warning" for a danger flag
\* (escapeHTML leaves the texts of the flags as they are: none holds & < > ")
renderFlags(d, flags) ==
  [d EXCEPT !.flagsEl =
     [i \in DOMAIN flags |->
        [class |-> IF flags[i].s = "danger" THEN "warning" ELSE "",
         strong |-> flags[i].t, div |-> flags[i].detail]]]

\* the em dash shown in an empty field
Dash == <<"-">>

\* l.107-117, for an empty value
clearUI(d) ==
  updateStrengthUI(
    [d EXCEPT !.sha1El = Dash,
              !.pwnedEl = [text |-> "-", count |-> 0, color |-> ""],
              !.entropyEl = [shown |-> FALSE, tenths |-> 0],
              !.suggestionsEl = <<>>,
              !.flagsEl = <<>>],
    0, <<>>)

clearUIIfEmpty(d, value) == IF Len(value) = 0 THEN clearUI(d) ELSE d

(* ------------------------ checkPwned (l.248-262) ---------------------- *)
\* sha1.slice(0,5) and sha1.slice(5)
prefixOf(sha1) == SubSeq(sha1, 1, 5)
suffixOf(sha1) == SubSeq(sha1, 6, Len(sha1))

Endpoint == <<"https://api.pwnedpasswords.com/range/">>

\* l.251-252 with the whole digest in the URL
rangeRequestWholeDigest(sha1) ==
  [url |-> Endpoint \o sha1, headers |-> {<<"Add-Padding", "true">>}]

\* l.249-252: the request fetch() sends
rangeRequest(sha1) ==
  [url |-> Endpoint \o prefixOf(sha1), headers |-> {<<"Add-Padding", "true">>}]

\* the least and the greatest element of a non-empty set of numbers
Least(S) == CHOOSE i \in S : \A j \in S : i <= j
Greatest(S) == CHOOSE i \in S : \A j \in S : i >= j

\* String.prototype.split(sep) for a one-character separator
RECURSIVE split(_, _)
split(s, sep) ==
  LET at == {i \in DOMAIN s : s[i] = sep}
  IN  IF at # {}
        THEN LET k == Least(at)
             IN  <<SubSeq(s, 1, k - 1)>> \o split(SubSeq(s, k + 1, Len(s)), sep)
        ELSE <<s>>

IsSpace(c) == c \in {" ", "\t", "\n", "\r"}

\* String.prototype.trimStart and trim
trimStart(s) ==
  LET ink == {i \in DOMAIN s : ~IsSpace(s[i])}
  IN  IF ink = {} THEN <<>> ELSE SubSeq(s, Least(ink), Len(s))

trim(s) ==
  LET ink == {i \in DOMAIN s : ~IsSpace(s[i])}
  IN  IF ink = {} THEN <<>> ELSE SubSeq(s, Least(ink), Greatest(ink))

\* the value of a destructured element the array does not have
undefined == <<"u","n","d","e","f","i","n","e","d">>

RECURSIVE digitsValue(_)
digitsValue(ds) ==
  IF Len(ds) = 0 THEN 0
  ELSE digitsValue(SubSeq(ds, 1, Len(ds) - 1)) * 10 + (charCodeAt(ds[Len(ds)]) - 48)

\* parseInt(str, 10): leading white space, a sign, then the longest run of
\* decimal digits; NaN when that run is empty
parseInt(str) ==
  LET t == trimStart(str)
      signed == Len(t) > 0 /\ t[1] \in {"+", "-"}
      body == IF signed THEN Tail(t) ELSE t
      others == {i \in DOMAIN body : ~IsDigit(body[i])}
      n == IF others = {} THEN Len(body) ELSE Least(others) - 1
      v == digitsValue(SubSeq(body, 1, n))
  IN  [NaN |-> n = 0, value |-> IF signed /\ t[1] = "-" THEN 0 - v ELSE v]

\* x || 0 for a number x
orZero(x) == IF x.NaN THEN 0 ELSE x.value

\* l.256-261 with the suffixes compared as they are
RECURSIVE scanLinesCaseSensitive(_, _)
scanLinesCaseSensitive(lines, suffix) ==
  IF Len(lines) = 0 THEN 0
  ELSE LET parts == split(trim(Head(lines)), ":")
           hashSuffix == parts[1]
           count == IF Len(parts) >= 2 THEN parts[2] ELSE undefined
       IN  IF Len(hashSuffix) = 0 THEN scanLinesCaseSensitive(Tail(lines), suffix)
           ELSE IF hashSuffix = suffix THEN orZero(parseInt(count))
           ELSE scanLinesCaseSensitive(Tail(lines), suffix)

\* l.256-261: the loop over the lines, and the return 0 after it
RECURSIVE scanLines(_, _)
scanLines(lines, suffix) ==
  IF Len(lines) = 0 THEN 0
  ELSE LET parts == split(trim(Head(lines)), ":")
           hashSuffix == parts[1]
           count == IF Len(parts) >= 2 THEN parts[2] ELSE undefined
       IN  IF Len(hashSuffix) = 0 THEN scanLines(Tail(lines), suffix)
           ELSE IF toUpperCase(hashSuffix) = suffix THEN orZero(parseInt(count))
           ELSE scanLines(Tail(lines), suffix)

\* l.250, l.255-261: what checkPwned returns for the body text of a response
pwnCountOf(sha1, text) == scanLines(split(text, "\n"), suffixOf(sha1))

(* ------------------------- the range service -------------------------- *)
\* a record of a range response: a suffix, and what follows it on the line:
\* ":" and a count in decimal ("count"), ":" alone ("empty"), ":" and a word
\* that is no number ("junk"), or nothing ("none")
Rec(suffix, tail, count) == [suffix |-> suffix, tail |-> tail, count |-> count]

\* a natural number in decimal
RECURSIVE decimal(_)
decimal(n) ==
  IF n < 10 THEN <<fromCharCode(48 + n)>>
  ELSE decimal(n \div 10) \o <<fromCharCode(48 + (n % 10))>>

tailText(rec) ==
  CASE rec.tail = "count" -> <<":">> \o decimal(rec.count)
    [] rec.tail = "empty" -> <<":">>
    [] rec.tail = "junk" -> <<":", "a", "b", "c">>
    [] rec.tail = "none" -> <<>>

\* the body text of a response: its records one per line, separated by eol
RECURSIVE bodyText(_, _)
bodyText(recs, eol) ==
  IF Len(recs) = 0 THEN <<>>
  ELSE Head(recs).suffix \o tailText(Head(recs))
       \o (IF Len(recs) > 1 THEN eol ELSE <<>>) \o bodyText(Tail(recs), eol)

LineEnds == { <<"\n">>, <<"\r", "\n">> }

\* the suffix of another digest of the same range: that of the other
\* password of the model with the same prefix, else the suffix with its
\* first character changed
otherSuffix(sha1) ==
  LET same == {p \in Passwords : prefixOf(sha1hex(p)) = prefixOf(sha1) /\ sha1hex(p) # sha1}
  IN  IF same # {} THEN suffixOf(sha1hex(CHOOSE p \in same : TRUE))
      ELSE [suffixOf(sha1) EXCEPT ![1] = IF @ = "0" THEN "1" ELSE "0"]

\* the records a response to the range of sha1 is made of: the suffix of
\* sha1 in either case or another suffix, followed by a count, a zero count
\* (a padding record) or a malformed tail; and the blank line
ServiceRecords(sha1) ==
  {Rec(s, t, 37) : s \in {suffixOf(sha1), toLowerCase(suffixOf(sha1)), otherSuffix(sha1)},
                   t \in {"count", "empty", "junk", "none"}}
  \cup {Rec(s, "count", 0) : s \in {suffixOf(sha1), toLowerCase(suffixOf(sha1)),
                                    otherSuffix(sha1)}}
  \cup {Rec(<<>>, "none", 37)}

SeqsUpTo(S, n) == UNION {[1..k -> S] : k \in 0..n}

\* the responses the input handler is run against: an empty body, another
\* digest's record, the digest's own record after it, and the digest's own
\* record after one of the same suffix with a count that is no number
PageResponses(sha1) ==
  { <<>>,
    <<Rec(otherSuffix(sha1), "count", 9)>>,
    <<Rec(otherSuffix(sha1), "count", 9), Rec(suffixOf(sha1), "count", 37)>>,
    <<Rec(suffixOf(sha1), "junk", 37), Rec(suffixOf(sha1), "count", 37)>> }

(* ------------------------------- state -------------------------------- *)
VARIABLES
  pwd,       \* pwd.value: the text in the password field
  dom,       \* what the page shows: sha1El, pwnedEl, entropyEl, suggestionsEl,
             \* flagsEl, and the strength bar and text
  tasks,     \* the calls of onInput, in the order of their events, each with
             \* its locals and the await it is suspended at
  requests,  \* the requests fetch() has sent, each with the call that sent it
  overtaken, \* the pairs <<t, u>> of calls with the event of u handled while
             \* the lookup of t was awaited
  lookup     \* one call of checkPwned on a response body, taken alone

vars == <<pwd, dom, tasks, requests, overtaken, lookup>>

\* the page before any input: the elements of l.11-17, all empty
emptyPage ==
  [sha1El |-> <<>>, pwnedEl |-> [text |-> "", count |-> 0, color |-> ""],
   entropyEl |-> [shown |-> FALSE, tenths |-> 0], suggestionsEl |-> <<>>,
   flagsEl |-> <<>>, fillWidth |-> 0, fillBackground |-> "", strengthText |-> ""]

noLookup == [state |-> "idle", sha1 |-> <<>>, recs |-> <<>>, text |-> <<>>, result |-> 0]

(* ------------------------- onInput (l.48-104) ------------------------- *)
\* l.49-54: a call of onInput returns at once for an empty value, and else
\* suspends at await sha1hex(value); its other locals are not yet assigned.
\* published counts the results the call has written to the page so far.
startTask(value) ==
  [value |-> value, pc |-> IF Len(value) = 0 THEN "returned" ELSE "sha1",
   sha1 |-> <<>>, entropy |-> 0, baseScore |-> 0, flags |-> <<>>,
   adjustedScore |-> 0, pwnCount |-> 0,
   published |-> [local |-> 0, refined |-> 0]]

\* l.54-77: the digest, the entropy, the score and the flags of each password
\* of the model
analysis ==
  [value \in Passwords |->
     LET baseScore == computeScore(value)
         flags == localFlags(value)
     IN  [sha1 |-> sha1hex(value), entropy |-> entropyOf(value),
          baseScore |-> baseScore, flags |-> flags,
          adjustedScore |-> adjustScore(baseScore, flags)]]

\* the body texts the range service answers the lookup of a password with
PageTexts ==
  [value \in Passwords |->
     {bodyText(recs, <<"\r", "\n">>) : recs \in PageResponses(sha1hex(value))}]

\* l.248-262: what checkPwned returns for each of them
checkPwned ==
  [value \in Passwords |->
     [text \in PageTexts[value] |-> pwnCountOf(sha1hex(value), text)]]

\* l.54-85: from the digest to the call of checkPwned, which suspends at
\* await fetch(url)
afterSha1(task, d) ==
  LET value == task.value
      sha1 == analysis[value].sha1
      entropy == analysis[value].entropy
      baseScore == analysis[value].baseScore
      flags == analysis[value].flags
      adjustedScore == analysis[value].adjustedScore
      d1 == [d EXCEPT !.sha1El = sha1,
                      !.entropyEl = [shown |-> TRUE, tenths |-> roundTenths(entropy)]]
      d2 == renderFlags(updateStrengthUI(d1, adjustedScore, value), flags)
  IN  [task |-> [task EXCEPT !.pc = "fetch", !.sha1 = sha1, !.entropy = entropy,
                             !.baseScore = baseScore, !.flags = flags,
                             !.adjustedScore = adjustedScore,
                             !.published.local = @ + 1],
       dom |-> [d2 EXCEPT !.pwnedEl = [text |-> "Checking HIBP...", count |-> 0,
                                      color |-> d2.pwnedEl.color]],
       request |-> rangeRequest(sha1)]

\* l.86-99 without the test of l.90: the breach flag is added, and the
\* score lowered, whatever the flags are
afterPwnCountAlwaysFlag(task, d, pwnCount) ==
  IF pwnCount > 0
    THEN LET flags == <<breachFlag(pwnCount)>> \o task.flags
             adjustedScore == Max(0, task.adjustedScore - 2)
             d1 == [d EXCEPT !.pwnedEl = [text |-> "FOUND in breaches", count |-> pwnCount,
                                          color |-> "--bad"]]
         IN  [task |-> [task EXCEPT !.pc = "done", !.pwnCount = pwnCount,
                                    !.flags = flags, !.adjustedScore = adjustedScore,
                                    !.published.refined = @ + 1],
              dom |-> updateStrengthUI(renderFlags(d1, flags), adjustedScore, task.value)]
    ELSE [task |-> [task EXCEPT !.pc = "done", !.pwnCount = pwnCount,
                                !.published.refined = @ + 1],
          dom |-> [d EXCEPT !.pwnedEl = [text |-> "Not found in known breaches", count |-> 0,
                                         color |-> "--good"]]]

\* l.86-99: checkPwned has returned pwnCount
afterPwnCount(task, d, pwnCount) ==
  IF pwnCount > 0
    THEN LET d1 == [d EXCEPT !.pwnedEl = [text |-> "FOUND in breaches", count |-> pwnCount,
                                          color |-> "--bad"]]
         IN  IF ~HasCommon(task.flags)
               THEN LET flags == <<breachFlag(pwnCount)>> \o task.flags
                        adjustedScore == Max(0, task.adjustedScore - 2)
                    IN  [task |-> [task EXCEPT !.pc = "done", !.pwnCount = pwnCount,
                                               !.flags = flags,
                                               !.adjustedScore = adjustedScore,
                                               !.published.refined = @ + 1],
                         dom |-> updateStrengthUI(renderFlags(d1, flags),
                                                  adjustedScore, task.value)]
               ELSE [task |-> [task EXCEPT !.pc = "done", !.pwnCount = pwnCount,
                                           !.published.refined = @ + 1],
                     dom |-> d1]
    ELSE [task |-> [task EXCEPT !.pc = "done", !.pwnCount = pwnCount,
                                !.published.refined = @ + 1],
          dom |-> [d EXCEPT !.pwnedEl = [text |-> "Not found in known breaches", count |-> 0,
                                         color |-> "--good"]]]

\* l.100-103 with the text of l.97: a failure shown as a count of 0
afterCatchAsNotFound(task, d) ==
  [task |-> [task EXCEPT !.pc = "failed", !.published.refined = @ + 1],
   dom |-> [d EXCEPT !.pwnedEl = [text |-> "Not found in known breaches", count |-> 0,
                                  color |-> "--good"]]]

\* l.100-103 going back to the await of l.252: the lookup tried again
afterCatchRetry(task, d) ==
  [task |-> [task EXCEPT !.pc = "fetch", !.published.refined = @ + 1],
   dom |-> [d EXCEPT !.pwnedEl = [text |-> "HIBP check unavailable", count |-> 0,
                                  color |-> "#fbbf24"]]]

\* l.100-103: checkPwned has thrown
afterCatch(task, d) ==
  [task |-> [task EXCEPT !.pc = "failed", !.published.refined = @ + 1],
   dom |-> [d EXCEPT !.pwnedEl = [text |-> "HIBP check unavailable", count |-> 0,
                                  color |-> "#fbbf24"]]]

(* ------------------------------ actions ------------------------------- *)
Init ==
  /\ pwd = <<>>
  /\ dom = emptyPage
  /\ tasks = <<>>
  /\ requests = {}
  /\ overtaken = {}
  /\ lookup = noLookup

\* an input event for the value p: l.24, l.49-54
Input(p) ==
  /\ Len(tasks) < MaxEvents
  /\ pwd' = p
  /\ dom' = clearUIIfEmpty(dom, p)
  /\ tasks' = Append(tasks, startTask(p))
  /\ overtaken' = overtaken \cup
        {<<t, Len(tasks) + 1>> : t \in {u \in DOMAIN tasks : tasks[u].pc \in {"fetch", "text"}}}
  /\ UNCHANGED <<requests, lookup>>

\* crypto.subtle.digest settles for call t: l.54-85, l.249-252
Sha1Resolved(t) ==
  /\ tasks[t].pc = "sha1"
  /\ LET r == afterSha1(tasks[t], dom)
     IN  /\ tasks' = [tasks EXCEPT ![t] = r.task]
         /\ dom' = r.dom
         /\ requests' = requests \cup
                {[task |-> t, url |-> r.request.url, headers |-> r.request.headers]}
  /\ UNCHANGED <<pwd, overtaken, lookup>>

\* the response of call t arrives with a success status: l.252-254
FetchOk(t) ==
  /\ tasks[t].pc = "fetch"
  /\ tasks' = [tasks EXCEPT ![t].pc = "text"]
  /\ UNCHANGED <<pwd, dom, requests, overtaken, lookup>>

\* fetch() rejects, or the status is no success and l.253 throws: l.100-103
FetchFailed(t) ==
  /\ tasks[t].pc = "fetch"
  /\ LET r == afterCatch(tasks[t], dom)
     IN  tasks' = [tasks EXCEPT ![t] = r.task] /\ dom' = r.dom
  /\ UNCHANGED <<pwd, requests, overtaken, lookup>>

\* res.text() settles with the body: l.254-261, l.86-99
TextResolved(t) ==
  /\ tasks[t].pc = "text"
  /\ \E text \in PageTexts[tasks[t].value] :
       LET r == afterPwnCount(tasks[t], dom, checkPwned[tasks[t].value][text])
       IN  tasks' = [tasks EXCEPT ![t] = r.task] /\ dom' = r.dom
  /\ UNCHANGED <<pwd, requests, overtaken, lookup>>

\* res.text() rejects: l.100-103
TextFailed(t) ==
  /\ tasks[t].pc = "text"
  /\ LET r == afterCatch(tasks[t], dom)
     IN  tasks' = [tasks EXCEPT ![t] = r.task] /\ dom' = r.dom
  /\ UNCHANGED <<pwd, requests, overtaken, lookup>>

Next ==
  \/ \E p \in Passwords : Input(p)
  \/ \E t \in DOMAIN tasks : Sha1Resolved(t)
  \/ \E t \in DOMAIN tasks : FetchOk(t)
  \/ \E t \in DOMAIN tasks : FetchFailed(t)
  \/ \E t \in DOMAIN tasks : TextResolved(t)
  \/ \E t \in DOMAIN tasks : TextFailed(t)

Spec == Init /\ [][Next]_vars

(* ------------------ checkPwned on one response body ------------------- *)
InitLookup ==
  /\ pwd = <<>>
  /\ dom = emptyPage
  /\ tasks = <<>>
  /\ requests = {}
  /\ overtaken = {}
  /\ \E p \in Passwords \ {<<>>} :
       \E recs \in SeqsUpTo(ServiceRecords(sha1hex(p)), MaxLines), eol \in LineEnds :
         lookup = [state |-> "text", sha1 |-> sha1hex(p), recs |-> recs,
                   text |-> bodyText(recs, eol), result |-> 0]

\* l.254-261 for the body text
Scan ==
  /\ lookup.state = "text"
  /\ lookup' = [lookup EXCEPT !.state = "returned",
                              !.result = pwnCountOf(lookup.sha1, lookup.text)]
  /\ UNCHANGED <<pwd, dom, tasks, requests, overtaken>>

NextLookup == Scan

SpecLookup == InitLookup /\ [][NextLookup]_vars

(* ----------------------------- properties ----------------------------- *)
\* the breach status of the event of a call
statusOf(task) ==
  CASE task.pc = "returned" -> "None"
    [] task.pc = "sha1" -> "Unknown"
    [] task.pc \in {"fetch", "text"} -> "Pending"
    [] task.pc = "failed" -> "Failed"
    [] task.pc = "done" -> IF task.pwnCount > 0 THEN "Found" ELSE "NotFound"

\* the call has published its local result
HasPublished(task) == task.pc \in {"fetch", "text", "failed", "done"}

\* the call holds its local result and no breach refinement of it
IsLocal(task) == task.pc \in {"fetch", "text", "failed"}

\* the page shows the result of call t: its digest, its flags, its adjusted
\* score and its breach status
Shows(t) ==
  /\ dom.sha1El = tasks[t].sha1
  /\ Len(dom.flagsEl) = Len(tasks[t].flags)
  /\ \A i \in DOMAIN dom.flagsEl : dom.flagsEl[i].strong = tasks[t].flags[i].t
  /\ dom.fillWidth = tasks[t].adjustedScore * 20
  /\ dom.pwnedEl.text =
       (CASE statusOf(tasks[t]) = "Pending" -> "Checking HIBP..."
          [] statusOf(tasks[t]) = "Failed" -> "HIBP check unavailable"
          [] statusOf(tasks[t]) = "Found" -> "FOUND in breaches"
          [] statusOf(tasks[t]) = "NotFound" -> "Not found in known breaches")
  /\ dom.pwnedEl.count = tasks[t].pwnCount

\* the lookup of call t ends in this step, with a count or with a failure
Resolves(t) == tasks[t].pc \in {"fetch", "text"} /\ tasks'[t].pc \in {"done", "failed"}

\* C1: last input wins. When the event of call u was handled while the lookup
\* of an earlier call t was awaited, and the page shows the result of u, the
\* end of the lookup of t (a count or a failure) leaves the page showing the
\* result of u: breach status, flags and adjusted score.
C1_StaleResolutionDiscarded ==
  [][\A pair \in overtaken :
       (Resolves(pair[1]) /\ HasPublished(tasks[pair[2]]) /\ Shows(pair[2]))
         => Shows(pair[2])']_vars

\* C2: every request sent carries the 5 first characters of the digest of the
\* password of its call after the endpoint, the padding header, and nothing
\* else; two passwords whose digests share these 5 characters send the same
\* request, whatever the other 35 characters are.
C2_OnlyPrefixSent ==
  \A r \in requests :
    LET digest == sha1hex(tasks[r.task].value)
    IN  /\ Len(digest) = 40
        /\ r.url = Endpoint \o SubSeq(digest, 1, 5)
        /\ r.headers = {<<"Add-Padding", "true">>}
        /\ \A q \in requests :
             SubSeq(sha1hex(tasks[q.task].value), 1, 5) = SubSeq(digest, 1, 5)
               => q.url = r.url /\ q.headers = r.headers

\* two calls for different passwords with the same digest prefix have both
\* sent their request
C2_Witness ==
  \E r, q \in requests :
    /\ tasks[r.task].value # tasks[q.task].value
    /\ sha1hex(tasks[r.task].value) # sha1hex(tasks[q.task].value)
    /\ r.url = q.url

\* C3: when the lookup of a call fails (fetch rejects, the status is no
\* success, or the body cannot be read), the page shows the failure text,
\* which no count shows, not even 0; the digest, entropy, flags and score
\* of the call and everything else on the page stay as they were.
C3_FailureKeepsLocalResult ==
  [][\A t \in DOMAIN tasks :
       (tasks[t].pc \in {"fetch", "text"} /\ tasks'[t].pc = "failed")
         => /\ dom'.pwnedEl.text = "HIBP check unavailable"
            /\ \A n \in {0, 1, 37} : dom'.pwnedEl # afterPwnCount(tasks[t], dom, n).dom.pwnedEl
            /\ [dom' EXCEPT !.pwnedEl = dom.pwnedEl] = dom
            /\ tasks'[t].sha1 = tasks[t].sha1
            /\ tasks'[t].entropy = tasks[t].entropy
            /\ tasks'[t].baseScore = tasks[t].baseScore
            /\ tasks'[t].flags = tasks[t].flags
            /\ tasks'[t].adjustedScore = tasks[t].adjustedScore]_vars

\* a lookup has failed and the page shows the failure beside the flags and
\* the digest of that call
C3_Witness ==
  \E t \in DOMAIN tasks :
    /\ tasks[t].pc = "failed"
    /\ dom.pwnedEl.text = "HIBP check unavailable"
    /\ dom.sha1El = tasks[t].sha1
    /\ Len(tasks[t].flags) > 0
    /\ Len(dom.flagsEl) = Len(tasks[t].flags)

\* C4: when the lookup of a call returns a count > 0, the page shows the
\* count; without a common-password flag, one breach flag of severity danger
\* is put before the flags of the call and the adjusted score becomes
\* max(0, adjusted - 2), and both are shown; with a common-password flag the
\* flags and the score of the call, and what the page shows of them, stay.
C4_BreachFoundRefinement ==
  [][\A t \in DOMAIN tasks :
       (tasks[t].pc = "text" /\ tasks'[t].pc = "done" /\ tasks'[t].pwnCount > 0)
         => LET old == tasks[t]
                new == tasks'[t]
                common == \E i \in DOMAIN old.flags : old.flags[i].t = "Common password"
            IN  /\ dom'.pwnedEl.text = "FOUND in breaches"
                /\ dom'.pwnedEl.count = new.pwnCount
                /\ ~common =>
                     /\ Len(new.flags) = Len(old.flags) + 1
                     /\ new.flags[1].t = "Found in breaches"
                     /\ new.flags[1].s = "danger"
                     /\ \A i \in DOMAIN old.flags : new.flags[i + 1] = old.flags[i]
                     /\ Cardinality({i \in DOMAIN new.flags :
                                       new.flags[i].t = "Found in breaches"}) = 1
                     /\ new.adjustedScore =
                          (IF old.adjustedScore >= 2 THEN old.adjustedScore - 2 ELSE 0)
                     /\ Len(dom'.flagsEl) = Len(new.flags)
                     /\ dom'.flagsEl[1].strong = "Found in breaches"
                     /\ dom'.flagsEl[1].class = "warning"
                     /\ dom'.fillWidth = new.adjustedScore * 20
                /\ common =>
                     /\ new.flags = old.flags
                     /\ new.adjustedScore = old.adjustedScore
                     /\ dom'.flagsEl = dom.flagsEl
                     /\ dom'.fillWidth = dom.fillWidth
                     /\ dom'.strengthText = dom.strengthText]_vars

\* a password with three flags, none of them danger, was found, its score
\* going from 4 to 2, and a common password was found too, keeping its flags
C4_Witness ==
  \E t, u \in DOMAIN tasks :
    /\ tasks[t].pc = "done" /\ tasks[t].pwnCount > 0
    /\ tasks[t].baseScore = 5 /\ tasks[t].adjustedScore = 2
    /\ tasks[t].flags[1].t = "Found in breaches" /\ Len(tasks[t].flags) = 4
    /\ tasks[u].pc = "done" /\ tasks[u].pwnCount > 0
    /\ \E i \in DOMAIN tasks[u].flags : tasks[u].flags[i].t = "Common password"
    /\ \A i \in DOMAIN tasks[u].flags : tasks[u].flags[i].t # "Found in breaches"

\* C5: in the result of every call that has published, local or refined,
\* 0 <= adjustedScore <= baseScore <= 5, and the strength bar is within
\* 0% and 100%.
C5_ScoreBounds ==
  /\ \A t \in DOMAIN tasks :
       HasPublished(tasks[t]) =>
         /\ 0 <= tasks[t].adjustedScore
         /\ tasks[t].adjustedScore <= tasks[t].baseScore
         /\ tasks[t].baseScore <= 5
  /\ dom.fillWidth \in 0..100

\* a refined result clamped at 0 from a base of 1, and a local result of
\* base 5
C5_Witness ==
  /\ \E t \in DOMAIN tasks :
       /\ tasks[t].pc = "done" /\ tasks[t].pwnCount > 0
       /\ tasks[t].baseScore = 1 /\ tasks[t].adjustedScore = 0
       /\ tasks[t].flags[1].t = "Found in breaches"
  /\ \E t \in DOMAIN tasks :
       /\ IsLocal(tasks[t]) /\ tasks[t].baseScore = 5 /\ tasks[t].adjustedScore = 4

Matching(recs, sha1) ==
  {i \in DOMAIN recs :
     /\ Len(recs[i].suffix) > 0
     /\ toUpperCase(recs[i].suffix) = toUpperCase(SubSeq(sha1, 6, 40))}

\* C7 as claimed: the lookup returns the count of the first well-formed
\* record with the suffix of the digest, passing over blank lines and
\* records with no count or a count that is no number, and 0 without one.
C7_MalformedLinesSkipped ==
  lookup.state = "returned" =>
    LET wellFormed == {i \in Matching(lookup.recs, lookup.sha1) :
                         lookup.recs[i].tail = "count"}
    IN  lookup.result = IF wellFormed = {} THEN 0
                        ELSE lookup.recs[Least(wellFormed)].count

\* C7, amended: the first record with the suffix of the digest, compared
\* without case, decides: the lookup returns its count, or 0 when its count
\* is missing or no number; blank lines and records of other suffixes,
\* well-formed or not, are passed over; without such a record it returns 0.
C7_FirstMatchDecides ==
  lookup.state = "returned" =>
    LET matching == Matching(lookup.recs, lookup.sha1)
        first == lookup.recs[Least(matching)]
    IN  lookup.result = IF matching = {} THEN 0
                        ELSE IF first.tail = "count" THEN first.count ELSE 0

\* a malformed record of another suffix, then the record of the digest in
\* lower case: its count is returned
C7_Witness ==
  /\ lookup.state = "returned"
  /\ Len(lookup.recs) = 2
  /\ lookup.recs[1].tail = "junk"
  /\ toUpperCase(lookup.recs[1].suffix) # SubSeq(lookup.sha1, 6, 40)
  /\ lookup.recs[2].suffix # SubSeq(lookup.sha1, 6, 40)
  /\ toUpperCase(lookup.recs[2].suffix) = SubSeq(lookup.sha1, 6, 40)
  /\ lookup.recs[2].tail = "count"
  /\ lookup.result = 37

qwerty123 == <<"q","w","e","r","t","y","1","2","3">>

FlagTitles(flags) == {flags[i].t : i \in DOMAIN flags}

\* the call of t publishes its local result in this step
PublishesLocal(t) == tasks[t].pc = "sha1" /\ tasks'[t].pc = "fetch"

\* C8 as claimed: the local result of "qwerty123" has the flags Keyboard
\* pattern and Common password, base score 4, adjusted score 2 and the
\* label "Medium", the label of a score s being labels[max(0, s-1)].
C8_Qwerty123AsClaimed ==
  [][\A t \in DOMAIN tasks :
       (PublishesLocal(t) /\ tasks[t].value = qwerty123)
         => /\ {"Keyboard pattern", "Common password"} \subseteq FlagTitles(tasks'[t].flags)
            /\ tasks'[t].baseScore = 4
            /\ tasks'[t].adjustedScore = 2
            /\ dom'.strengthText = "Medium"
            /\ dom'.strengthText =
                 <<"Very Weak", "Weak", "Medium", "Strong", "Very Strong">>
                   [(IF tasks'[t].adjustedScore >= 1 THEN tasks'[t].adjustedScore - 1 ELSE 0) + 1]
    ]_vars

\* C8, amended: the local result of "qwerty123" has the flags Keyboard
\* pattern and Common password, base score 3 (length >= 8, lower case,
\* digit), adjusted score 1 (base minus the danger penalty of 2) and the
\* label "Very Weak", the label of a score s being labels[max(0, s-1)].
C8_Qwerty123 ==
  [][\A t \in DOMAIN tasks :
       (PublishesLocal(t) /\ tasks[t].value = qwerty123)
         => /\ {"Keyboard pattern", "Common password"} \subseteq FlagTitles(tasks'[t].flags)
            /\ tasks'[t].baseScore = 3
            /\ tasks'[t].adjustedScore = 1
            /\ dom'.strengthText = "Very Weak"
            /\ dom'.strengthText =
                 <<"Very Weak", "Weak", "Medium", "Strong", "Very Strong">>
                   [(IF tasks'[t].adjustedScore >= 1 THEN tasks'[t].adjustedScore - 1 ELSE 0) + 1]
    ]_vars

\* the local result of "qwerty123" is on the page
C8_Witness ==
  \E t \in DOMAIN tasks :
    /\ tasks[t].value = qwerty123
    /\ tasks[t].pc = "fetch"
    /\ Shows(t)
    /\ dom.strengthText = "Very Weak"

\* the page as an empty value leaves it
IsCleared ==
  /\ dom.sha1El = Dash
  /\ dom.pwnedEl.text = "-"
  /\ ~dom.entropyEl.shown
  /\ dom.flagsEl = <<>>
  /\ dom.fillWidth = 0

\* C9: a call publishes its local result only while its event is the last
\* one handled; after an event with an empty value, the page stays cleared
\* until the next event; and no request is sent for an empty value.
C9_LocalPhaseNotOvertaken ==
  /\ [][\A t \in DOMAIN tasks : PublishesLocal(t) => t = Len(tasks)]_vars
  /\ [](Len(tasks) > 0 /\ tasks[Len(tasks)].value = <<>> => IsCleared)
  /\ [](\A r \in requests : tasks[r.task].value # <<>>)

\* what each call has published, by the await it is at
C10_Counts ==
  \A t \in DOMAIN tasks :
    LET task == tasks[t]
    IN  /\ task.pc = "returned" <=> task.value = <<>>
        /\ task.pc \in {"returned", "sha1"} => task.published = [local |-> 0, refined |-> 0]
        /\ task.pc \in {"fetch", "text"} => task.published = [local |-> 1, refined |-> 0]
        /\ task.pc \in {"done", "failed"} => task.published = [local |-> 1, refined |-> 1]

\* the steps of the status of each call
C10_Steps ==
  \A t \in DOMAIN tasks :
    /\ PublishesLocal(t) => dom'.pwnedEl.text = "Checking HIBP..." /\ dom'.sha1El = tasks'[t].sha1
    /\ tasks'[t].published.refined > tasks[t].published.refined => tasks[t].published.local = 1
    /\ statusOf(tasks[t]) = "Unknown" => statusOf(tasks'[t]) \in {"Unknown", "Pending"}
    /\ statusOf(tasks[t]) = "Pending" =>
         statusOf(tasks'[t]) \in {"Pending", "NotFound", "Found", "Failed"}
    /\ statusOf(tasks[t]) \in {"NotFound", "Found", "Failed", "None"} =>
         /\ statusOf(tasks'[t]) = statusOf(tasks[t])
         /\ tasks'[t] = tasks[t]

\* C10: a call for a non-empty value publishes one local result, with the
\* status Pending, when its digest settles, which nothing prevents; it
\* publishes at most one refinement, and only after the local result; its
\* status goes from Pending to one of NotFound, Found and Failed, and stays.
C10_OneLocalThenOneRefinement ==
  /\ [](C10_Counts /\ \A t \in DOMAIN tasks : tasks[t].pc = "sha1" => ENABLED Sha1Resolved(t))
  /\ [][C10_Steps]_vars

\* a call has published its local result and then its one refinement, Found
C10_Witness ==
  \E t \in DOMAIN tasks :
    /\ tasks[t].pc = "done" /\ tasks[t].pwnCount > 0
    /\ tasks[t].published = [local |-> 1, refined |-> 1]
=============================================================================
